---- MODULE Spec2Model ----
(***************************************************************************)
(* Model of query_builder.select.Select: a fluent builder of one SELECT    *)
(* statement.  A rendered statement is a sequence of tokens; a filter      *)
(* (Where) is a binary tree; a join specification (Join) is a sequence of  *)
(* entries.  `calls` is a history variable: the calls made so far on the   *)
(* Select, in call order.                                                  *)
(***************************************************************************)
EXTENDS Integers, Sequences, FiniteSets, TLC

VARIABLES _table_name, _distinct, _join, _where, _order_by, _limit, _offset,
          _group_by, calls, pc, cursor, sent, outcome

vars == <<_table_name, _distinct, _join, _where, _order_by, _limit, _offset,
          _group_by, calls, pc, cursor, sent, outcome>>

builder == <<_table_name, _distinct, _join, _where, _order_by, _limit,
             _offset, _group_by>>

exec == <<pc, cursor, sent, outcome>>

\* Bound on the number of builder calls made on the Select.
MaxCalls == 3

(***************************************************************************)
(* Tokens of a rendered statement (psycopg2.sql objects rendered in order) *)
(***************************************************************************)
Tok(k, a, b, v) == [k |-> k, a |-> a, b |-> b, v |-> v]

\* sql.SQL keyword of a clause
KW(s) == Tok("kw", s, "", 0)
\* sql.SQL text that is not a clause keyword: operators, parentheses, separators
OP(s) == Tok("op", s, "", 0)
\* sql.Identifier(name): a quoted name
ID(s) == Tok("id", s, "", 0)
\* "{}.{}" of two identifiers: a quoted table-qualified column
QID(t, c) == Tok("qid", t, c, 0)
\* sql.Literal(value): the value itself, quoted inline in the statement
LIT(n) == Tok("lit", "", "", n)
\* sql.Placeholder: %s; v records the value the placeholder was emitted for
PH(n) == Tok("ph", "%s", "", n)

\* An absent keyword argument
Absent == ""

\* Python's None for an optional rendered clause, and a clause that was set
None == [some |-> FALSE, sql |-> <<>>]
Some(s) == [some |-> TRUE, sql |-> s]

RECURSIVE SepJoin(_, _)
\* Composed.join(sep): the elements with sep between each two of them
SepJoin(seq, sep) ==
    IF Len(seq) <= 1 THEN seq
    ELSE <<Head(seq), sep>> \o SepJoin(Tail(seq), sep)

(***************************************************************************)
(* Where: the filter tree                                                  *)
(***************************************************************************)
NoWhere == [type |-> "none"]
Leaf(t, c, o, v) == [type |-> "leaf", table |-> t, column |-> c, operator |-> o, value |-> v]
Comp(l, o, r) == [type |-> "comp", left |-> l, op |-> o, right |-> r]

\* Operators that bind no value
Unary == {"IS NULL"}

\* Arguments of a where/where_and/where_or call: a Where object or None, and
\* the keyword arguments (table may be absent)
WArgs(w, t, c, o, v) == [where |-> w, table |-> t, column |-> c, operator |-> o, value |-> v]

\* Where(where, **kwargs): the given node when there is one, else a leaf
WhereNew(a) ==
    IF a.where.type # "none" THEN a.where
    ELSE Leaf(a.table, a.column, a.operator, a.value)

sql_and(w, other) == Comp(w, "AND", other)
sql_or(w, other) == Comp(w, "OR", other)

RECURSIVE WhereSql(_)
\* Where.sql: composites are parenthesised, a leaf is table.column operator %s
WhereSql(w) ==
    IF w.type = "leaf"
    THEN IF w.operator \in Unary
         THEN <<QID(w.table, w.column), OP(w.operator)>>
         ELSE <<QID(w.table, w.column), OP(w.operator), PH(w.value)>>
    ELSE <<OP("(")>> \o WhereSql(w.left) \o <<OP(w.op)>> \o WhereSql(w.right) \o <<OP(")")>>

RECURSIVE WhereParams(_)
\* Where.params: the bound values, in the order their placeholders are rendered
WhereParams(w) ==
    IF w.type = "leaf"
    THEN IF w.operator \in Unary THEN <<>> ELSE <<w.value>>
    ELSE WhereParams(w.left) \o WhereParams(w.right)

(***************************************************************************)
(* Join: the join specification                                            *)
(***************************************************************************)
NoJoin == [some |-> FALSE, entries |-> <<>>]
JoinOf(es) == [some |-> TRUE, entries |-> es]
Entry(t, c, ot, oc) == [table |-> t, column |-> c, on_table |-> ot, on_column |-> oc]

\* Arguments of a join call: a Join object or None, and keyword parts
\* (table absent when no keyword part is passed)
JArgs(j, t, c, ot, oc) == [join |-> j, table |-> t, column |-> c, on_table |-> ot, on_column |-> oc]

\* Join.join(join, **kwargs): a given specification is concatenated,
\* otherwise one entry is built from the parts and appended
JoinJoin(j, a) ==
    IF a.join.some THEN JoinOf(j.entries \o a.join.entries)
    ELSE JoinOf(Append(j.entries, Entry(a.table, a.column, a.on_table, a.on_column)))

\* Join(join, **kwargs)
JoinNew(a) == JoinJoin(NoJoin, a)

\* Join.tables: the tables of the entries, in entry order
JoinTables(j) == [i \in 1..Len(j.entries) |-> j.entries[i].table]

RECURSIVE EntriesSql(_)
\* JOIN table ON condition for each entry, in entry order
EntriesSql(es) ==
    IF es = <<>> THEN <<>>
    ELSE <<KW("JOIN"), ID(Head(es).table), KW("ON"),
           QID(Head(es).table, Head(es).column), OP("="),
           QID(Head(es).on_table, Head(es).on_column)>> \o EntriesSql(Tail(es))

\* Join.sql
JoinSql(j) == EntriesSql(j.entries)

(***************************************************************************)
(* The column catalog                                                      *)
(***************************************************************************)
Catalog(t) ==
    CASE t = "users" -> <<"id", "name">>
      [] t = "orders" -> <<"id", "user_id">>
      [] t = "items" -> <<"id">>
      [] OTHER -> <<>>

\* get_columns_composed(table, pg_config): the table's qualified columns
get_columns_composed(t) == [i \in 1..Len(Catalog(t)) |-> QID(t, Catalog(t)[i])]

(***************************************************************************)
(* Inputs                                                                  *)
(***************************************************************************)
\* where(column="id", operator="=", value=5): no table given
FilterId == WArgs(NoWhere, Absent, "id", "=", 5)
\* where(table="orders", column="user_id", operator="<", value=7)
FilterOrders == WArgs(NoWhere, "orders", "user_id", "<", 7)
\* where(Where object): a composite built by the caller, one leaf unary
FilterObject ==
    WArgs(Comp(Leaf("orders", "id", "=", 7), "OR", Leaf("users", "name", "IS NULL", 0)),
          Absent, Absent, Absent, 0)

WhereInputs == {FilterId, FilterOrders, FilterObject}

EntryOrders == Entry("orders", "user_id", "users", "id")
EntryItems == Entry("items", "id", "orders", "id")
\* join(table="orders", ...): keyword parts only
JoinParts == JArgs(NoJoin, "orders", "user_id", "users", "id")
\* join(Join object): a specification of two entries
JoinObject == JArgs(JoinOf(<<EntryItems, EntryOrders>>), Absent, Absent, Absent, Absent)
\* join(Join object, table="orders", ...): both
JoinBoth == JArgs(JoinOf(<<EntryItems>>), "orders", "user_id", "users", "id")

JoinInputs == {JoinParts, JoinObject, JoinBoth}

\* order_by / group_by arguments: column, table (may be absent), direction
OArgs(c, t, d) == [column |-> c, table |-> t, direction |-> d]
OrderInputs == {OArgs("name", Absent, "ASC"), OArgs("id", "orders", "DESC")}
GroupInputs == {OArgs("name", Absent, Absent), OArgs("user_id", "orders", Absent)}

\* distinct arguments: one column name (a str) or a list of column names
DArgs(isstr, cols) == [isstr |-> isstr, cols |-> cols]
DistinctInputs == {DArgs(TRUE, <<"name">>), DArgs(FALSE, <<"id", "name">>)}

LimitInputs == {10, 20}
OffsetInputs == {5, 30}

(***************************************************************************)
(* Select                                                                  *)
(***************************************************************************)
Call(kind, a) == [kind |-> kind, a |-> a]

\* A builder method runs while no execute call is in progress
CanCall == pc = "idle" /\ Len(calls) < MaxCalls

Init ==
    /\ _table_name = "users"
    /\ _distinct = None
    /\ _join = NoJoin
    /\ _where = NoWhere
    /\ _order_by = None
    /\ _limit = None
    /\ _offset = None
    /\ _group_by = None
    /\ calls = <<>>
    /\ pc = "idle"
    /\ cursor = "none"
    /\ sent = <<>>
    /\ outcome = "none"

\* join that builds a new specification on every call
join_mut(a) ==
    /\ CanCall
    /\ _join' = JoinNew(a)
    /\ calls' = Append(calls, Call("join", a))
    /\ UNCHANGED <<_table_name, _distinct, _where, _order_by, _limit, _offset, _group_by>>
    /\ UNCHANGED exec

join(a) ==
    /\ CanCall
    /\ _join' = IF ~_join.some THEN JoinNew(a)
                ELSE IF a.join.some
                     THEN JoinJoin(_join, JArgs(a.join, Absent, Absent, Absent, Absent))
                     ELSE JoinJoin(_join, JArgs(NoJoin, a.table, a.column, a.on_table, a.on_column))
    /\ calls' = Append(calls, Call("join", a))
    /\ UNCHANGED <<_table_name, _distinct, _where, _order_by, _limit, _offset, _group_by>>
    /\ UNCHANGED exec

get_join == _join

\* kwargs after `if "table" not in kwargs: kwargs["table"] = self._table_name`
WithTable(a) == IF a.table = Absent THEN [a EXCEPT !.table = _table_name] ELSE a

\* The value where_and assigns to self._where
where_and_root(a) ==
    IF _where.type = "none" THEN WhereNew(WithTable(a))
    ELSE sql_and(_where, WhereNew(WithTable(a)))

where_and(a) ==
    /\ CanCall
    /\ _where' = where_and_root(a)
    /\ calls' = Append(calls, Call("where_and", a))
    /\ UNCHANGED <<_table_name, _distinct, _join, _order_by, _limit, _offset, _group_by>>
    /\ UNCHANGED exec

\* where that fills in the base table only when it creates the root
where_mut(a) ==
    /\ CanCall
    /\ _where' = IF _where.type = "none" THEN WhereNew(WithTable(a))
                 ELSE where_and_root(WArgs(WhereNew(a), Absent, Absent, Absent, 0))
    /\ calls' = Append(calls, Call("where", a))
    /\ UNCHANGED <<_table_name, _distinct, _join, _order_by, _limit, _offset, _group_by>>
    /\ UNCHANGED exec

where(a) ==
    /\ CanCall
    /\ _where' = IF _where.type = "none" THEN WhereNew(WithTable(a))
                 ELSE where_and_root(WArgs(WhereNew(WithTable(a)), Absent, Absent, Absent, 0))
    /\ calls' = Append(calls, Call("where", a))
    /\ UNCHANGED <<_table_name, _distinct, _join, _order_by, _limit, _offset, _group_by>>
    /\ UNCHANGED exec

\* where_or with the operands of the composite exchanged
where_or_mut(a) ==
    /\ CanCall
    /\ _where' = IF _where.type = "none" THEN WhereNew(WithTable(a))
                 ELSE sql_or(WhereNew(WithTable(a)), _where)
    /\ calls' = Append(calls, Call("where_or", a))
    /\ UNCHANGED <<_table_name, _distinct, _join, _order_by, _limit, _offset, _group_by>>
    /\ UNCHANGED exec

where_or(a) ==
    /\ CanCall
    /\ _where' = IF _where.type = "none" THEN WhereNew(WithTable(a))
                 ELSE sql_or(_where, WhereNew(WithTable(a)))
    /\ calls' = Append(calls, Call("where_or", a))
    /\ UNCHANGED <<_table_name, _distinct, _join, _order_by, _limit, _offset, _group_by>>
    /\ UNCHANGED exec

order_by(a) ==
    /\ CanCall
    /\ _order_by' = Some(<<KW("ORDER BY"),
                          QID(IF a.table = Absent THEN _table_name ELSE a.table, a.column),
                          OP(a.direction)>>)
    /\ calls' = Append(calls, Call("order_by", a))
    /\ UNCHANGED <<_table_name, _distinct, _join, _where, _limit, _offset, _group_by>>
    /\ UNCHANGED exec

distinct(a) ==
    /\ CanCall
    /\ _distinct' = IF a.isstr
                    THEN Some(<<KW("DISTINCT"), ID(a.cols[1])>>)
                    ELSE Some(<<KW("DISTINCT")>>
                              \o SepJoin([i \in 1..Len(a.cols) |-> ID(a.cols[i])], OP(", ")))
    /\ calls' = Append(calls, Call("distinct", a))
    /\ UNCHANGED <<_table_name, _join, _where, _order_by, _limit, _offset, _group_by>>
    /\ UNCHANGED exec

order_by_sql == IF ~_order_by.some THEN <<>> ELSE _order_by.sql

\* limit rendered as a placeholder
limit_mut(n) ==
    /\ CanCall
    /\ _limit' = Some(<<KW("LIMIT"), PH(n)>>)
    /\ calls' = Append(calls, Call("limit", n))
    /\ UNCHANGED <<_table_name, _distinct, _join, _where, _order_by, _offset, _group_by>>
    /\ UNCHANGED exec

limit(n) ==
    /\ CanCall
    /\ _limit' = Some(<<KW("LIMIT"), LIT(n)>>)
    /\ calls' = Append(calls, Call("limit", n))
    /\ UNCHANGED <<_table_name, _distinct, _join, _where, _order_by, _offset, _group_by>>
    /\ UNCHANGED exec

limit_sql == IF ~_limit.some THEN <<>> ELSE _limit.sql

offset(n) ==
    /\ CanCall
    /\ _offset' = Some(<<KW("OFFSET"), LIT(n)>>)
    /\ calls' = Append(calls, Call("offset", n))
    /\ UNCHANGED <<_table_name, _distinct, _join, _where, _order_by, _limit, _group_by>>
    /\ UNCHANGED exec

offset_sql == IF ~_offset.some THEN <<>> ELSE _offset.sql

\* group_by that stores its clause in the order_by field
group_by_mut(a) ==
    /\ CanCall
    /\ _order_by' = Some(<<KW("GROUP BY"),
                          QID(IF a.table = Absent THEN _table_name ELSE a.table, a.column)>>)
    /\ calls' = Append(calls, Call("group_by", a))
    /\ UNCHANGED <<_table_name, _distinct, _join, _where, _group_by, _limit, _offset>>
    /\ UNCHANGED exec

group_by(a) ==
    /\ CanCall
    /\ _group_by' = Some(<<KW("GROUP BY"),
                          QID(IF a.table = Absent THEN _table_name ELSE a.table, a.column)>>)
    /\ calls' = Append(calls, Call("group_by", a))
    /\ UNCHANGED <<_table_name, _distinct, _join, _where, _order_by, _limit, _offset>>
    /\ UNCHANGED exec

group_by_sql == IF ~_group_by.some THEN <<>> ELSE _group_by.sql

RECURSIVE JoinedColumns(_)
\* for t in join.tables: columns = columns + get_columns_composed(t, pg_config)
JoinedColumns(ts) ==
    IF ts = <<>> THEN <<>>
    ELSE get_columns_composed(Head(ts)) \o JoinedColumns(Tail(ts))

\* the joined tables' columns collected before the base table's
columns_mut ==
    (IF get_join.some THEN JoinedColumns(JoinTables(get_join)) ELSE <<>>)
        \o get_columns_composed(_table_name)

\* The projection columns to_sql collects before rendering
columns ==
    get_columns_composed(_table_name)
        \o (IF get_join.some THEN JoinedColumns(JoinTables(get_join)) ELSE <<>>)

\* distinct put in front of the catalog columns instead of replacing them
projection_mut ==
    IF ~_distinct.some THEN SepJoin(columns, OP(","))
    ELSE _distinct.sql \o <<OP(",")>> \o SepJoin(columns, OP(","))

\* columns=columns.join(",") if self._distinct is None else self._distinct
projection == IF ~_distinct.some THEN SepJoin(columns, OP(",")) ELSE _distinct.sql

\* the statement with LIMIT before OFFSET
to_sql_mut ==
    LET join_sql == IF get_join.some THEN JoinSql(get_join) ELSE <<>>
        where_sql == IF _where.type # "none" THEN <<KW("WHERE")>> \o WhereSql(_where) ELSE <<>>
    IN  <<KW("SELECT")>>
          \o projection
          \o <<KW("FROM"), ID(_table_name)>>
          \o join_sql \o where_sql \o order_by_sql \o group_by_sql \o limit_sql \o offset_sql

to_sql ==
    LET join_sql == IF get_join.some THEN JoinSql(get_join) ELSE <<>>
        where_sql == IF _where.type # "none" THEN <<KW("WHERE")>> \o WhereSql(_where) ELSE <<>>
    IN  <<KW("SELECT")>>
          \o projection
          \o <<KW("FROM"), ID(_table_name)>>
          \o join_sql \o where_sql \o order_by_sql \o group_by_sql \o offset_sql \o limit_sql

\* the parameters with the values of the limit and offset literals appended
get_params_mut ==
    (IF _where.type = "none" THEN <<>> ELSE WhereParams(_where))
        \o (IF _offset.some THEN <<_offset.sql[2].v>> ELSE <<>>)
        \o (IF _limit.some THEN <<_limit.sql[2].v>> ELSE <<>>)

get_params == IF _where.type = "none" THEN <<>> ELSE WhereParams(_where)

(***************************************************************************)
(* Select.execute, one step per statement of its body                      *)
(***************************************************************************)
\* PostgresConfig.connect_with_cursor: the scoped cursor is open inside the
\* scope and released once the scope is left
CursorEntered == "open"
CursorExited == "released"

\* command and params are computed, then the with statement acquires the cursor
execute_enter ==
    /\ pc = "idle"
    /\ pc' = "with"
    /\ cursor' = CursorEntered
    /\ sent' = <<>>
    /\ outcome' = "none"
    /\ UNCHANGED <<builder, calls>>

\* the statement run on a cursor that no with block guards: an exception
\* leaves the call at once
cursor_execute_mut(ok) ==
    /\ pc = "with"
    /\ sent' = Append(sent, IF get_params # <<>>
                            THEN [command |-> to_sql, has_params |-> TRUE, params |-> get_params]
                            ELSE [command |-> to_sql, has_params |-> FALSE, params |-> <<>>])
    /\ pc' = IF ok THEN "fetch" ELSE "done"
    /\ outcome' = IF ok THEN outcome ELSE "raised"
    /\ UNCHANGED <<builder, calls, cursor>>

\* cursor.execute(command, params) or cursor.execute(command); it may raise
cursor_execute(ok) ==
    /\ pc = "with"
    /\ sent' = Append(sent, IF get_params # <<>>
                            THEN [command |-> to_sql, has_params |-> TRUE, params |-> get_params]
                            ELSE [command |-> to_sql, has_params |-> FALSE, params |-> <<>>])
    /\ pc' = IF ok THEN "fetch" ELSE "raise"
    /\ UNCHANGED <<builder, calls, cursor, outcome>>

\* cursor.fetchall() and the conversion of the rows; it may raise
cursor_fetchall(ok) ==
    /\ pc = "fetch"
    /\ pc' = IF ok THEN "return" ELSE "raise"
    /\ UNCHANGED <<builder, calls, cursor, sent, outcome>>

\* Leaving the with block, by return or by exception, releases the cursor;
\* only then does the caller see the result or the error
with_exit ==
    /\ pc \in {"return", "raise"}
    /\ cursor' = CursorExited
    /\ outcome' = IF pc = "return" THEN "returned" ELSE "raised"
    /\ pc' = "done"
    /\ UNCHANGED <<builder, calls, sent>>

\* The caller goes on after the call
execute_done ==
    /\ pc = "done"
    /\ pc' = "idle"
    /\ cursor' = "none"
    /\ sent' = <<>>
    /\ outcome' = "none"
    /\ UNCHANGED <<builder, calls>>

Next ==
    \/ \E a \in JoinInputs : join(a)
    \/ \E a \in WhereInputs : where(a)
    \/ \E a \in WhereInputs : where_and(a)
    \/ \E a \in WhereInputs : where_or(a)
    \/ \E a \in OrderInputs : order_by(a)
    \/ \E a \in DistinctInputs : distinct(a)
    \/ \E n \in LimitInputs : limit(n)
    \/ \E n \in OffsetInputs : offset(n)
    \/ \E a \in GroupInputs : group_by(a)
    \/ execute_enter
    \/ \E ok \in BOOLEAN : cursor_execute(ok)
    \/ \E ok \in BOOLEAN : cursor_fetchall(ok)
    \/ with_exit
    \/ execute_done

Spec == Init /\ [][Next]_vars

(***************************************************************************)
(* Helpers of the properties                                               *)
(***************************************************************************)
\* The calls of the given kinds, in call order
CallsOf(K) == SelectSeq(calls, LAMBDA c : c.kind \in K)
WhereCalls == CallsOf({"where", "where_and", "where_or"})
Called(kind) == CallsOf({kind}) # <<>>
LastArg(kind) == CallsOf({kind})[Len(CallsOf({kind}))].a

\* The filter a where/where_and/where_or call supplies
Supplied(c) ==
    IF c.a.where.type # "none" THEN c.a.where
    ELSE Leaf(IF c.a.table = Absent THEN _table_name ELSE c.a.table,
              c.a.column, c.a.operator, c.a.value)

RECURSIVE LeftNested(_)
\* The supplied filters combined in call order, each call wrapping the result
\* of the calls before it
LeftNested(cs) ==
    IF cs = <<>> THEN NoWhere
    ELSE IF Len(cs) = 1 THEN Supplied(cs[1])
    ELSE Comp(LeftNested(SubSeq(cs, 1, Len(cs) - 1)),
              IF cs[Len(cs)].kind = "where_or" THEN "OR" ELSE "AND",
              Supplied(cs[Len(cs)]))

\* The tokens of a kind in a statement, in order
OfKind(stmt, k) == SelectSeq(stmt, LAMBDA t : t.k = k)
HasKw(stmt, s) == \E i \in 1..Len(stmt) : stmt[i] = KW(s)

\* The values the placeholders of a statement stand for, left to right
PlaceholderValues(stmt) == [i \in 1..Len(OfKind(stmt, "ph")) |-> OfKind(stmt, "ph")[i].v]

RECURSIVE SuppliedParams(_)
\* The values bound by the supplied filters, in call order
SuppliedParams(cs) ==
    IF cs = <<>> THEN <<>>
    ELSE WhereParams(Supplied(Head(cs))) \o SuppliedParams(Tail(cs))

\* The tokens of the statement between SELECT and FROM
ProjectionOf(stmt) ==
    LET from == CHOOSE i \in 1..Len(stmt) : stmt[i] = KW("FROM") /\ \A j \in 1..(i - 1) : stmt[j] # KW("FROM")
    IN  SubSeq(stmt, 2, from - 1)

(***************************************************************************)
(* C1                                                                      *)
(***************************************************************************)
\* C1: after any sequence of where/where_and/where_or calls the filter root is
\* the left-nested combination of the supplied filters in call order: the
\* first call's filter alone, then one AND (where, where_and) or OR (where_or)
\* composite per later call, previous root on the left, new filter on the right.
C1_AppendOnly == _where = LeftNested(WhereCalls)

C1_Witness ==
    /\ Len(WhereCalls) = 3
    /\ WhereCalls[2].kind = "where_or"
    /\ WhereCalls[3].kind = "where_and"
    /\ _where.type = "comp"
    /\ _where.left.type = "comp"

(***************************************************************************)
(* C2                                                                      *)
(***************************************************************************)
\* C2: get_params is the parameter sequence of the filters supplied so far
\* (empty without a filter), and the placeholders of the rendered statement
\* stand, left to right, for exactly these values: no other clause adds a
\* placeholder or a parameter.
C2_ParamsMatchPlaceholders ==
    /\ get_params = SuppliedParams(WhereCalls)
    /\ PlaceholderValues(to_sql) = get_params
    /\ WhereCalls = <<>> => get_params = <<>>

C2_Witness ==
    /\ Called("limit")
    /\ Len(get_params) = 2
    /\ get_params[1] # get_params[2]

(***************************************************************************)
(* C3                                                                      *)
(***************************************************************************)
\* Select("users").where(column="id", operator="=", value=5).limit(10)
C3_Scenario ==
    /\ Len(calls) = 2
    /\ calls[1].kind = "where"
    /\ calls[1].a = FilterId
    /\ calls[2].kind = "limit"
    /\ calls[2].a = 10

\* C3 as stated: limit is rendered as a bound placeholder whose value is
\* appended to the parameters; the scenario's statement ends in LIMIT %s and
\* get_params is [5, 10].
C3_Original ==
    C3_Scenario =>
        /\ to_sql[Len(to_sql) - 1] = KW("LIMIT")
        /\ to_sql[Len(to_sql)].k = "ph"
        /\ get_params = <<5, 10>>

\* C3 amended: limit and offset are rendered as inline literals that add
\* neither a placeholder nor a parameter: the statement ends in LIMIT followed
\* by the literal of the last limit call, OFFSET is followed by the literal of
\* the last offset call, and in the scenario the statement ends in LIMIT 10
\* and get_params is [5].
C3_LimitIsLiteral ==
    LET stmt == to_sql
        n == Len(stmt)
    IN  /\ Called("limit") =>
              /\ stmt[n - 1] = KW("LIMIT")
              /\ stmt[n] = LIT(LastArg("limit"))
        /\ Called("offset") =>
              \E i \in 1..(n - 1) :
                  stmt[i] = KW("OFFSET") /\ stmt[i + 1] = LIT(LastArg("offset"))
        /\ Len(get_params) = Len(SuppliedParams(WhereCalls))
        /\ C3_Scenario =>
              /\ stmt[n] = LIT(10)
              /\ get_params = <<5>>

C3_Witness == C3_Scenario /\ to_sql[Len(to_sql) - 1] = KW("LIMIT")

(***************************************************************************)
(* C4                                                                      *)
(***************************************************************************)
\* The place of a clause keyword in the statement's fixed clause order
KwRank(s) ==
    CASE s = "SELECT" -> 1
      [] s = "DISTINCT" -> 2
      [] s = "FROM" -> 3
      [] s \in {"JOIN", "ON"} -> 4
      [] s = "WHERE" -> 5
      [] s = "ORDER BY" -> 6
      [] s = "GROUP BY" -> 7
      [] s = "OFFSET" -> 8
      [] s = "LIMIT" -> 9
      [] OTHER -> 0

\* The modifier whose call makes a clause keyword appear
KwModifier(s) ==
    CASE s = "JOIN" -> {"join"}
      [] s = "WHERE" -> {"where", "where_and", "where_or"}
      [] s = "ORDER BY" -> {"order_by"}
      [] s = "GROUP BY" -> {"group_by"}
      [] s = "OFFSET" -> {"offset"}
      [] s = "LIMIT" -> {"limit"}

OptionalKw == {"JOIN", "WHERE", "ORDER BY", "GROUP BY", "OFFSET", "LIMIT"}

\* C4: whatever the order of the modifier calls, the statement starts with
\* SELECT, its clause keywords appear in the order SELECT, FROM, JOIN, WHERE,
\* ORDER BY, GROUP BY, OFFSET, LIMIT (each at most once, JOIN .. ON once per
\* join entry), and the keyword of a clause whose modifier was never called
\* does not appear.
C4_ClauseOrder ==
    LET stmt == to_sql
        kws == OfKind(stmt, "kw")
    IN  /\ stmt[1] = KW("SELECT")
        /\ HasKw(stmt, "FROM")
        /\ \A i, j \in 1..Len(kws) :
              i < j => /\ KwRank(kws[i].a) <= KwRank(kws[j].a)
                       /\ KwRank(kws[i].a) = KwRank(kws[j].a) => KwRank(kws[i].a) = 4
        /\ \A s \in OptionalKw : CallsOf(KwModifier(s)) = <<>> => ~HasKw(stmt, s)

\* limit was called before offset, order_by before the filter, and group_by
\* never: the statement still has WHERE, ORDER BY, OFFSET, LIMIT in this order
C4_Witness ==
    /\ Len(calls) >= 3
    /\ calls[1].kind = "limit"
    /\ calls[2].kind = "offset"
    /\ calls[3].kind = "join"
    /\ ~Called("group_by")
    /\ HasKw(to_sql, "JOIN")
    /\ to_sql[Len(to_sql) - 1] = KW("LIMIT")
    /\ to_sql[Len(to_sql) - 3] = KW("OFFSET")

(***************************************************************************)
(* C5                                                                      *)
(***************************************************************************)
\* C5: if distinct was called, the projection is DISTINCT followed by the
\* columns of the most recent distinct call and holds no catalog column;
\* otherwise the projection holds catalog columns only and the statement has
\* no DISTINCT keyword.
C5_OneProjectionForm ==
    LET stmt == to_sql
        proj == ProjectionOf(stmt)
    IN  IF Called("distinct")
        THEN /\ proj[1] = KW("DISTINCT")
             /\ OfKind(proj, "id") = [i \in 1..Len(LastArg("distinct").cols) |-> ID(LastArg("distinct").cols[i])]
             /\ OfKind(proj, "qid") = <<>>
             /\ Len(OfKind(stmt, "kw")) >= 2 /\ OfKind(stmt, "kw")[2] = KW("DISTINCT")
        ELSE /\ ~HasKw(stmt, "DISTINCT")
             /\ OfKind(proj, "qid") # <<>>
             /\ \A i \in 1..Len(proj) : proj[i].k = "qid" \/ proj[i] = OP(",")
             /\ OfKind(proj, "id") = <<>>

\* distinct was called twice, with a join call after the first
C5_Witness ==
    /\ Len(CallsOf({"distinct"})) = 2
    /\ Called("join")
    /\ calls[1].kind = "distinct"
    /\ calls[1].a # LastArg("distinct")

(***************************************************************************)
(* C6                                                                      *)
(***************************************************************************)
LastWins == {"order_by", "group_by", "limit", "offset"}

\* The clause built from the arguments of a call of a last-wins kind
ClauseOf(kind, a) ==
    CASE kind = "order_by" ->
             <<KW("ORDER BY"), QID(IF a.table = Absent THEN _table_name ELSE a.table, a.column), OP(a.direction)>>
      [] kind = "group_by" ->
             <<KW("GROUP BY"), QID(IF a.table = Absent THEN _table_name ELSE a.table, a.column)>>
      [] kind = "limit" -> <<KW("LIMIT"), LIT(a)>>
      [] kind = "offset" -> <<KW("OFFSET"), LIT(a)>>

Stored(kind) ==
    CASE kind = "order_by" -> _order_by
      [] kind = "group_by" -> _group_by
      [] kind = "limit" -> _limit
      [] kind = "offset" -> _offset

KwOf(kind) ==
    CASE kind = "order_by" -> "ORDER BY"
      [] kind = "group_by" -> "GROUP BY"
      [] kind = "limit" -> "LIMIT"
      [] kind = "offset" -> "OFFSET"

\* The stored clause of each kind is the one built from the most recent call
\* of that kind, and the statement shows that clause and no other of the kind
C6_LastCall ==
    LET stmt == to_sql
    IN  \A kind \in LastWins :
            IF Called(kind)
            THEN LET clause == ClauseOf(kind, LastArg(kind))
                     at == {i \in 1..Len(stmt) : stmt[i] = KW(KwOf(kind))}
                 IN  /\ Stored(kind) = Some(clause)
                     /\ Cardinality(at) = 1
                     /\ \A i \in at : SubSeq(stmt, i, i + Len(clause) - 1) = clause
            ELSE ~Stored(kind).some

\* A call of one of the four kinds changes nothing but its own stored clause
C6_FrameStep ==
    (Len(calls') = Len(calls) + 1 /\ calls'[Len(calls')].kind \in LastWins) =>
        /\ \A kind \in LastWins \ {calls'[Len(calls')].kind} : Stored(kind)' = Stored(kind)
        /\ UNCHANGED <<_table_name, _join, _where>>

\* C6: for order_by, group_by, limit and offset the Select holds only the
\* clause of the most recent call of the kind, and a call of one kind leaves
\* the clauses of the other kinds, the table name, the join and the filter
\* root unchanged.
C6_LastCallWins == []C6_LastCall /\ [][C6_FrameStep]_vars

\* two order_by calls with different arguments, after a group_by call
C6_Witness ==
    /\ Len(calls) = 3
    /\ calls[1].kind = "group_by"
    /\ calls[2].kind = "order_by"
    /\ calls[3].kind = "order_by"
    /\ calls[2].a # calls[3].a
    /\ _group_by.some

(***************************************************************************)
(* C7                                                                      *)
(***************************************************************************)
\* C7: an execute call that acquired the cursor has released it when the call
\* ends, by return or by exception, and the caller sees the result or the
\* error only then; the cursor is open only inside the with block; within a
\* call the cursor receives one statement, the rendered one, with the
\* parameter list when filters bound a value and without parameters otherwise.
C7_CursorReleased ==
    /\ outcome # "none" => cursor = "released" /\ pc = "done"
    /\ pc = "done" => outcome # "none" /\ cursor = "released"
    /\ cursor = "open" <=> pc \in {"with", "fetch", "return", "raise"}
    /\ Len(sent) <= 1
    /\ pc \in {"fetch", "return", "raise", "done"} => Len(sent) = 1
    /\ \A i \in 1..Len(sent) :
          /\ sent[i].command = to_sql
          /\ sent[i].has_params <=> SuppliedParams(WhereCalls) # <<>>
          /\ sent[i].params = SuppliedParams(WhereCalls)

\* the statement was sent with parameters and raised; the cursor is released
C7_Witness ==
    /\ outcome = "raised"
    /\ cursor = "released"
    /\ Len(sent) = 1
    /\ sent[1].has_params
    /\ Len(sent[1].params) = 2

(***************************************************************************)
(* C8                                                                      *)
(***************************************************************************)
RECURSIVE Blocks(_)
\* The catalog columns of a sequence of tables, one block per table
Blocks(ts) ==
    IF ts = <<>> THEN <<>>
    ELSE [i \in 1..Len(Catalog(Head(ts))) |-> QID(Head(ts), Catalog(Head(ts))[i])]
             \o Blocks(Tail(ts))

\* C8: without distinct, the projection is the base table's catalog columns
\* followed by one block of catalog columns per entry of the join, in entry
\* order, separated by commas; without a join it is the base table's columns.
C8_ProjectionBlocks ==
    ~Called("distinct") =>
        LET proj == ProjectionOf(to_sql)
            tables == <<_table_name>> \o [i \in 1..Len(_join.entries) |-> _join.entries[i].table]
        IN  /\ OfKind(proj, "qid") = Blocks(tables)
            /\ Len(proj) = 2 * Len(Blocks(tables)) - 1
            /\ \A i \in 1..Len(proj) : (i % 2 = 0) => proj[i] = OP(",")
            /\ ~Called("join") => OfKind(proj, "qid") = Blocks(<<"users">>)

\* a join of three entries, one table joined twice
C8_Witness ==
    /\ ~Called("distinct")
    /\ Len(_join.entries) = 3
    /\ _join.entries[1].table = "orders"
    /\ _join.entries[2].table = "items"
    /\ _join.entries[3].table = "orders"

(***************************************************************************)
(* C9                                                                      *)
(***************************************************************************)
PartsEntry(a) == Entry(a.table, a.column, a.on_table, a.on_column)

RECURSIVE AllSupplied(_)
\* Every entry the join calls supplied, as an object or as keyword parts
AllSupplied(cs) ==
    IF cs = <<>> THEN <<>>
    ELSE (IF Head(cs).a.join.some THEN Head(cs).a.join.entries ELSE <<>>)
         \o (IF Head(cs).a.table # Absent THEN <<PartsEntry(Head(cs).a)>> ELSE <<>>)
         \o AllSupplied(Tail(cs))

RECURSIVE ObjectElseParts(_)
\* The entries of the Join object of each call that passes one, and the entry
\* built from the keyword parts of each call that passes no object
ObjectElseParts(cs) ==
    IF cs = <<>> THEN <<>>
    ELSE (IF Head(cs).a.join.some THEN Head(cs).a.join.entries ELSE <<PartsEntry(Head(cs).a)>>)
         \o ObjectElseParts(Tail(cs))

\* C9 as stated: the join's entries are all the entries supplied by the calls,
\* in call order, none dropped, also for a call that passes both a Join object
\* and keyword parts.
C9_Original ==
    /\ _join.some <=> Called("join")
    /\ _join.entries = AllSupplied(CallsOf({"join"}))

\* C9 amended: the join is created by the first join call and every later
\* call appends to it; the entries are, in call order, the entries of the Join
\* object for a call that passes one and the entry built from the keyword
\* parts for a call that passes only keyword parts; keyword parts passed
\* together with a Join object are ignored.
C9_JoinConcat ==
    /\ _join.some <=> Called("join")
    /\ _join.entries = ObjectElseParts(CallsOf({"join"}))

\* a later call passed both a Join object and keyword parts
C9_Witness ==
    /\ Len(CallsOf({"join"})) = 3
    /\ CallsOf({"join"})[1].a = JoinObject
    /\ CallsOf({"join"})[2].a = JoinBoth
    /\ CallsOf({"join"})[3].a = JoinParts
    /\ Len(_join.entries) = 4

(***************************************************************************)
(* C10                                                                     *)
(***************************************************************************)
\* C10: a where call on a Select that has a filter root does what where_and
\* does with the same arguments: the new root is the AND composite of the
\* previous root and the filter built from the arguments, whose table is the
\* caller's when one is given and the base table when it is omitted.
C10_Step ==
    (Len(calls') = Len(calls) + 1 /\ calls'[Len(calls')].kind = "where" /\ _where.type # "none") =>
        LET a == calls'[Len(calls')].a
            filter == IF a.where.type # "none" THEN a.where
                      ELSE Leaf(IF a.table # Absent THEN a.table ELSE _table_name,
                                a.column, a.operator, a.value)
        IN  /\ _where' = where_and_root(a)
            /\ _where'.type = "comp"
            /\ _where'.left = _where
            /\ _where'.op = "AND"
            /\ _where'.right = filter

C10_WhereIsWhereAnd == [][C10_Step]_vars

\* where was called on an existing root, once with a table and once without
C10_Witness ==
    /\ Len(calls) = 3
    /\ calls[1].kind = "where_or"
    /\ calls[2].kind = "where"
    /\ calls[3].kind = "where"
    /\ calls[2].a = FilterOrders
    /\ calls[3].a = FilterId
    /\ _where.right.table = "users"
    /\ _where.left.right.table = "orders"

====
